---------------------------- MODULE Spec2Model ----------------------------
(***************************************************************************)
(* Model of msdk-py: project generation (commands/init/generate.py), the   *)
(* project configuration document (common/toml_config.py), the command     *)
(* runner (common/utils.py) and the entry point (__main__.py).             *)
(*                                                                         *)
(* Text is modelled as a sequence of atoms: an atom is a run of characters *)
(* that the program never splits (a placeholder token, a name, a suffix).  *)
(* The empty string is the empty sequence.                                 *)
(***************************************************************************)
EXTENDS Integers, Sequences, FiniteSets, TLC

VARIABLES
    \* ---- project generation (gen_proj) ----
    fs,          \* the output directories: "cwd" (Path.cwd()) and "proj" (cwd/proj)
    last,        \* what the last gen_proj call did (history)
    generated,   \* directories a gen_proj call generated successfully (history)
    calls,       \* number of gen_proj calls so far
    \* ---- project configuration document (msdk-proj.toml in cwd) ----
    toml,        \* the file msdk-proj.toml in cwd
    gdbScript,   \* whether cwd/<flash.gdb_script> exists
    ocdDir,      \* whether the OpenOCD directory exists
    loaded,      \* result of the last load_flash_config call (history)
    edits,       \* number of user edits of msdk-proj.toml so far
    origin,      \* who wrote msdk-proj.toml last: "none", "init" or "user" (history)
    \* ---- command runner (run_trusted_cmd) ----
    child,       \* the child process: what it still writes, its exit code
    pipes,       \* the stdout and stderr pipes: buffered lines, closed by the writer
    rd,          \* the two reader threads (_out_stream)
    console,     \* what cout has printed, in order
    mpc,         \* position of the thread that runs run_trusted_cmd
    outcome,     \* how run_trusted_cmd ended
    \* ---- entry point (main) ----
    exits,       \* log of main invocations: what the command did, the exit status
    \* ---- one invocation of the tool from the command line ----
    quietMode,   \* the module global _QUIET_MODE of common/display.py
    inv,         \* the invocation: its arguments, position, what it ran (history)
    \* ---- functions applied to inputs of their own ----
    tc,          \* find_maxim_toolchain: the Tools/GNUTools listing, the result
    ide,         \* extract_flash_config_from_vscode: the settings, the result
    gitig,       \* _write_git_ignore: the .gitignore entry, the calls so far
    cp           \* gen_proj on one directory: the directory before, the call

genVars  == <<fs, last, generated, calls>>
cfgVars  == <<toml, gdbScript, ocdDir, loaded, edits, origin>>
runVars  == <<child, pipes, rd, console, mpc, outcome>>
mainVars == <<exits>>
cliVars  == <<quietMode, inv>>
fnVars   == <<tc, ide, gitig, cp>>
vars     == <<genVars, cfgVars, runVars, mainVars, cliVars, fnVars>>

---------------------------------------------------------------------------
(* Text helpers                                                            *)

\* str.replace(old, new) where old is one atom and new a text.
RECURSIVE Replace(_, _, _)
Replace(s, old, new) ==
    IF s = <<>> THEN <<>>
    ELSE (IF Head(s) = old THEN new ELSE <<Head(s)>>) \o Replace(Tail(s), old, new)

\* dict.get(key, default)
Get(d, key, default) == IF key \in DOMAIN d THEN d[key] ELSE default

\* Python truthiness of a text: the empty string is falsy.
Truthy(s) == s # <<>>

\* The line terminator.
Newline == "\n"

TokProjectName == "${config:project_name}"
TokProgramFile == "${config:program_file}"

---------------------------------------------------------------------------
(* Exceptions: the classes of common/error.py and the builtin ones used.   *)

\* common/error.py: ValidationError, CannotProceedError, MissingToolError
\* derive from MsdkError; the others are Python builtins.
MsdkSubclasses == {"ValidationError", "CannotProceedError", "MissingToolError"}

IsMsdkError(e) == e \in MsdkSubclasses \cup {"MsdkError"}

---------------------------------------------------------------------------
(* Project Config Synthesizer (common/toml_config.py)                      *)

extract_flash_config_symbol_first(settings, project_name) ==
    LET raw_program == Get(settings, "program_file", project_name \o <<".elf">>)
        program_file == Replace(raw_program, TokProjectName, project_name)
        symbol0 == Get(settings, "symbol_file", program_file)
        symbol1 == Replace(symbol0, TokProjectName, project_name)
        symbol_file == Replace(symbol1, TokProgramFile, raw_program)
    IN [target         |-> Get(settings, "target", <<>>),
        board          |-> Get(settings, "board", <<>>),
        program_file   |-> program_file,
        symbol_file    |-> symbol_file,
        interface_file |-> Get(settings, "M4_OCD_interface_file", <<"cmsis-dap.cfg">>),
        target_file    |-> Get(settings, "M4_OCD_target_file", <<>>)]

extract_flash_config_from_vscode(settings, project_name) ==
    LET program_file == Replace(Get(settings, "program_file", project_name \o <<".elf">>),
                                TokProjectName, project_name)
        symbol0 == Get(settings, "symbol_file", program_file)
        symbol1 == Replace(symbol0, TokProgramFile, program_file)
        symbol_file == Replace(symbol1, TokProjectName, project_name)
    IN [target         |-> Get(settings, "target", <<>>),
        board          |-> Get(settings, "board", <<>>),
        program_file   |-> program_file,
        symbol_file    |-> symbol_file,
        interface_file |-> Get(settings, "M4_OCD_interface_file", <<"cmsis-dap.cfg">>),
        target_file    |-> Get(settings, "M4_OCD_target_file", <<>>)]

\* The document write_project_config serialises (toml_data).
TomlData(target, board, project_name, settings_json) ==
    LET flash_config == extract_flash_config_from_vscode(settings_json, project_name)
    IN [project |-> [target |-> target, board |-> board, name |-> project_name],
        flash   |-> [program_file   |-> flash_config.program_file,
                     symbol_file    |-> flash_config.symbol_file,
                     interface_file |-> flash_config.interface_file,
                     target_file    |-> flash_config.target_file,
                     gdb_script     |-> <<".vscode/flash.gdb">>],
        paths   |-> [ocd_path |-> <<>>]]

RequiredSections == <<"project", "flash">>

RequiredFields ==
    [project |-> <<"target", "board", "name">>,
     flash   |-> <<"program_file", "symbol_file", "interface_file",
                   "target_file", "gdb_script">>]

\* _validate_toml_sections: TRUE when it raises ValidationError.
ValidateTomlSectionsRaises(data) ==
    \E i \in 1..Len(RequiredSections) : RequiredSections[i] \notin DOMAIN data

ValidateFieldsPresenceOnly(data) ==
    \E section \in DOMAIN RequiredFields :
        \E i \in 1..Len(RequiredFields[section]) :
            RequiredFields[section][i] \notin DOMAIN data[section]

\* _validate_toml_fields: TRUE when it raises ValidationError.
ValidateTomlFieldsRaises(data) ==
    \E section \in DOMAIN RequiredFields :
        \E i \in 1..Len(RequiredFields[section]) :
            LET field == RequiredFields[section][i]
            IN  \/ field \notin DOMAIN data[section]
                \/ ~Truthy(data[section][field])

\* The file msdk-proj.toml: absent, not parseable as TOML, or a document.
TomlAbsent    == [state |-> "absent"]
TomlMalformed == [state |-> "malformed"]
TomlDoc(data) == [state |-> "doc", data |-> data]

\* load_flash_config: the FlashConfig it returns or the exception it raises.
\* gdb: cwd/<gdb_script> exists; ocd: the resolved OpenOCD directory exists.
load_flash_config(file, gdb, ocd) ==
    IF file.state = "absent" THEN [kind |-> "ValidationError", why |-> "missing"]
    ELSE IF file.state = "malformed" THEN [kind |-> "ValidationError", why |-> "parse"]
    ELSE IF ValidateTomlSectionsRaises(file.data)
        THEN [kind |-> "ValidationError", why |-> "section"]
    ELSE IF ValidateTomlFieldsRaises(file.data)
        THEN [kind |-> "ValidationError", why |-> "field"]
    ELSE IF ~gdb THEN [kind |-> "ValidationError", why |-> "gdb_script"]
    ELSE IF ~ocd THEN [kind |-> "ValidationError", why |-> "ocd_path"]
    ELSE [kind |-> "FlashConfig",
          target         |-> file.data.project.target,
          board          |-> file.data.project.board,
          project_name   |-> file.data.project.name,
          program_file   |-> file.data.flash.program_file,
          symbol_file    |-> file.data.flash.symbol_file,
          interface_file |-> file.data.flash.interface_file,
          target_file    |-> file.data.flash.target_file]

---------------------------------------------------------------------------
(* The configuration document in cwd: written by init, edited by the user, *)
(* read by load_flash_config.                                              *)

MaxEdits == 2

Targets == {<<"MAX32655">>}
Bsps    == {<<"FTHR_RevA">>}

\* .vscode/settings.json documents of SDK examples (IDE settings).
SettingsFull ==
    [project_name          |-> <<"${workspaceFolderBasename}">>,
     program_file          |-> <<TokProjectName, ".elf">>,
     symbol_file           |-> <<TokProgramFile>>,
     M4_OCD_interface_file |-> <<"cmsis-dap.cfg">>,
     M4_OCD_target_file    |-> <<"max32655.cfg">>,
     target                |-> <<"MAX32655">>,
     board                 |-> <<"EvKit_V1">>]

SettingsNoTargetFile ==
    [project_name          |-> <<"${workspaceFolderBasename}">>,
     program_file          |-> <<TokProjectName, ".elf">>,
     symbol_file           |-> <<TokProgramFile>>,
     M4_OCD_interface_file |-> <<"cmsis-dap.cfg">>,
     target                |-> <<"MAX32655">>,
     board                 |-> <<"EvKit_V1">>]

SettingsLiteral ==
    [program_file       |-> <<"app.elf">>,
     symbol_file        |-> <<TokProjectName, ".sym">>,
     M4_OCD_target_file |-> <<"max32690.cfg">>]

SettingsDocs == {SettingsFull, SettingsNoTargetFile, SettingsLiteral}

ProjectNames == {<<"proj">>, <<"work">>}

NotLoaded == [kind |-> "none"]

\* write_project_config(output_dir = cwd, ...): the file afterwards and the
\* exception raised ("none" when it returns).
write_project_config(file, target, board, project_name, settings_json) ==
    IF file.state # "absent"
    THEN [file |-> file, exc |-> "CannotProceedError"]
    ELSE [file |-> TomlDoc(TomlData(target, board, project_name, settings_json)),
          exc  |-> "none"]

\* init writes the document.
CfgWrite ==
    \E t \in Targets, b \in Bsps, n \in ProjectNames, s \in SettingsDocs :
        LET r == write_project_config(toml, t, b, n, s)
        IN  /\ toml' = r.file
            /\ origin' = IF r.exc = "none" THEN "init" ELSE origin
            /\ loaded' = NotLoaded
            /\ UNCHANGED <<gdbScript, ocdDir, edits>>
            /\ UNCHANGED <<genVars, runVars, mainVars, cliVars, fnVars>>

\* f without key k
Without(f, k) == [x \in DOMAIN f \ {k} |-> f[x]]

\* The user edits the file by hand: removes it, breaks its syntax, drops a
\* section or a field, or blanks a field.
CfgEditDelete ==
    /\ edits < MaxEdits
    /\ toml.state # "absent"
    /\ toml' = TomlAbsent
    /\ origin' = "none"
    /\ edits' = edits + 1
    /\ loaded' = NotLoaded
    /\ UNCHANGED <<gdbScript, ocdDir>>
    /\ UNCHANGED <<genVars, runVars, mainVars, cliVars, fnVars>>

CfgEditCorrupt ==
    /\ edits < MaxEdits
    /\ toml.state = "doc"
    /\ toml' = TomlMalformed
    /\ origin' = "user"
    /\ edits' = edits + 1
    /\ loaded' = NotLoaded
    /\ UNCHANGED <<gdbScript, ocdDir>>
    /\ UNCHANGED <<genVars, runVars, mainVars, cliVars, fnVars>>

CfgEditDropSection ==
    /\ edits < MaxEdits
    /\ toml.state = "doc"
    /\ \E sec \in DOMAIN toml.data :
           toml' = TomlDoc(Without(toml.data, sec))
    /\ origin' = "user"
    /\ edits' = edits + 1
    /\ loaded' = NotLoaded
    /\ UNCHANGED <<gdbScript, ocdDir>>
    /\ UNCHANGED <<genVars, runVars, mainVars, cliVars, fnVars>>

CfgEditDropField ==
    /\ edits < MaxEdits
    /\ toml.state = "doc"
    /\ \E sec \in DOMAIN toml.data : \E fld \in DOMAIN toml.data[sec] :
           toml' = TomlDoc([toml.data EXCEPT ![sec] = Without(@, fld)])
    /\ origin' = "user"
    /\ edits' = edits + 1
    /\ loaded' = NotLoaded
    /\ UNCHANGED <<gdbScript, ocdDir>>
    /\ UNCHANGED <<genVars, runVars, mainVars, cliVars, fnVars>>

CfgEditBlankField ==
    /\ edits < MaxEdits
    /\ toml.state = "doc"
    /\ \E sec \in DOMAIN toml.data : \E fld \in DOMAIN toml.data[sec] :
           /\ toml.data[sec][fld] # <<>>
           /\ toml' = TomlDoc([toml.data EXCEPT ![sec][fld] = <<>>])
    /\ origin' = "user"
    /\ edits' = edits + 1
    /\ loaded' = NotLoaded
    /\ UNCHANGED <<gdbScript, ocdDir>>
    /\ UNCHANGED <<genVars, runVars, mainVars, cliVars, fnVars>>

\* build/flash/run read the document.
CfgLoad ==
    /\ loaded = NotLoaded
    /\ loaded' = load_flash_config(toml, gdbScript, ocdDir)
    /\ UNCHANGED <<toml, gdbScript, ocdDir, edits, origin>>
    /\ UNCHANGED <<genVars, runVars, mainVars, cliVars, fnVars>>

---------------------------------------------------------------------------
(* Project generation (commands/init/generate.py)                          *)
(*                                                                         *)
(* The output directory is either the current working directory ("cwd",    *)
(* adopted) or the directory cwd/proj ("proj", created by gen_proj).  A    *)
(* directory is a record: whether it exists, and its entries by relative   *)
(* path.  The SDK template is read-only input.                             *)

MaxCalls == 2

Dirs == {"cwd", "proj"}

EntNames == {"Makefile", "src", "src/main.c", "project.mk", "include",
             "include/.gitkeep", "include/user.h", ".vscode",
             ".vscode/settings.json", "msdk-proj.toml", "README.md",
             ".git", ".gitignore", ".msdk-py-proj",
             "Makefile.old", "src/main.c.old", "project.mk.old"}

NoEnt         == [kind |-> "none"]
DirEnt        == [kind |-> "dir"]
FileEnt(data) == [kind |-> "file", data |-> data]

EmptyDir   == [exists |-> TRUE,  ent |-> [n \in EntNames |-> NoEnt]]
MissingDir == [exists |-> FALSE, ent |-> [n \in EntNames |-> NoEnt]]

\* Path.exists() of an entry of directory d
EntExists(f, d, name) == f[d].exists /\ f[d].ent[name].kind # "none"

\* output_dir.resolve().name
DirName(d) == IF d = "proj" THEN <<"proj">> ELSE <<"work">>

\* A template (example) directory of the SDK.
TemplateLines == << <<"# project.mk of the example">>, <<"# Add your config here!">> >>

Template(makefile, main_c, project_mk, vscode, settings) ==
    [dir |-> TRUE, makefile |-> makefile, main_c |-> main_c,
     project_mk |-> project_mk, mk_lines |-> TemplateLines,
     vscode |-> vscode, settings |-> settings]

\* vscode: "none" (no .vscode directory), "nosettings" (a .vscode directory
\* without settings.json), "ok", "malformed" (settings.json is not JSON).
Templates ==
    { Template(TRUE, TRUE, TRUE, "ok", SettingsFull),
      Template(TRUE, TRUE, TRUE, "ok", SettingsNoTargetFile),
      Template(TRUE, TRUE, TRUE, "none", SettingsFull),
      Template(TRUE, TRUE, TRUE, "malformed", SettingsFull),
      Template(TRUE, TRUE, FALSE, "ok", SettingsFull) }

\* What goes wrong during one call, if the step is reached: an OS-level failure
\* (OSError) at that step, git not installed (shutil.which gives None), or
\* `git init` exiting non-zero.
Faults == {"none", "mkdir", "subdirs", "copy2", "mk_rewrite", "copytree",
           "write_toml", "readme", "gitignore", "git_missing", "git_fails"}

\* The running state of one gen_proj call: the directories, the exception in
\* flight ("none" while running normally), and what the call has done
\* (created: it created output_dir; git_ran: it invoked `git init`;
\* git_seen: the kind of .git entry _init_git found, "unreached" if not called).
Start(f) == [fs |-> f, exc |-> "none", created |-> FALSE, git_ran |-> FALSE,
             mk_copied |-> FALSE, git_seen |-> "unreached"]

Raise(st, e) == [st EXCEPT !.exc = e]

\* Sequencing: a raised exception skips the rest of the try block.
Then(st, Step(_)) == IF st.exc # "none" THEN st ELSE Step(st)

SetEnt(st, d, name, node) == [st EXCEPT !.fs[d].ent[name] = node]

\* _ensure_template_files_exist
EnsureTemplateFilesExist(st, t) ==
    IF t.dir /\ t.makefile /\ t.main_c /\ t.project_mk
    THEN st ELSE Raise(st, "ValidationError")

\* output_dir.mkdir(parents=True) when not is_cwd
MkOutputDir(st, od, fault) ==
    IF od = "cwd" THEN st
    ELSE IF fault = "mkdir" \/ st.fs[od].exists THEN Raise(st, "OSError")
    ELSE [st EXCEPT !.fs[od].exists = TRUE, !.created = TRUE]

\* Path.mkdir(exist_ok=True)
MkdirExistOk(st, od, name) ==
    CASE st.fs[od].ent[name].kind = "file" -> Raise(st, "OSError")
      [] st.fs[od].ent[name].kind = "dir"  -> st
      [] OTHER -> SetEnt(st, od, name, DirEnt)

MkSubdirs(st, od, fault) ==
    IF fault = "subdirs" THEN Raise(st, "OSError")
    ELSE Then(MkdirExistOk(st, od, "include"),
              LAMBDA s : MkdirExistOk(s, od, "src"))

\* One round of the copy loop: shutil.copy2 unless the destination exists.
CopyOne(st, od, dest, data, fault, tag) ==
    IF EntExists(st.fs, od, dest) THEN st
    ELSE IF fault = tag THEN Raise(st, "OSError")
    ELSE [SetEnt(st, od, dest, FileEnt(data))
             EXCEPT !.mk_copied = (@ \/ dest = "project.mk")]

CopyFiles(st, od, t, fault) ==
    Then(Then(CopyOne(st, od, "Makefile", <<"template Makefile">>, fault, "copy1"),
              LAMBDA s : CopyOne(s, od, "src/main.c", <<"template main.c">>, fault, "copy2")),
         LAMBDA s : CopyOne(s, od, "project.mk", t.mk_lines, fault, "copy3"))

\* common/utils.py dir_is_empty(include): any(path.iterdir())
dir_is_empty(f, d) ==
    \E n \in {"include/.gitkeep", "include/user.h"} : f[d].ent[n].kind # "none"

\* (inc_out / ".gitkeep").touch()
GitKeep(st, od, with_git) ==
    IF with_git /\ dir_is_empty(st.fs, od)
    THEN IF st.fs[od].ent["include/.gitkeep"].kind = "none"
         THEN SetEnt(st, od, "include/.gitkeep", FileEnt(<<>>))
         ELSE st
    ELSE st

\* The identity block appended to project.mk, as the lines of the written text.
IdentityBlock(od, bsp, target) ==
    << <<"PROJECT=">> \o DirName(od), <<"BOARD=">> \o bsp, <<"TARGET=">> \o target,
       <<>>, <<"# Add any additional configs here!">> >>

RewriteProjectMkKeepsLastLine(st, od, bsp, target, fault) ==
    IF ~st.mk_copied THEN st
    ELSE IF fault = "mk_rewrite" THEN Raise(st, "OSError")
    ELSE LET lines == st.fs[od].ent["project.mk"].data
         IN  SetEnt(st, od, "project.mk", FileEnt(lines \o IdentityBlock(od, bsp, target)))

\* mk_out.read_text().splitlines()[:-1], the four items appended, "\n".join
RewriteProjectMk(st, od, bsp, target, fault) ==
    IF ~st.mk_copied THEN st
    ELSE IF fault = "mk_rewrite" THEN Raise(st, "OSError")
    ELSE LET lines == st.fs[od].ent["project.mk"].data
             kept  == SubSeq(lines, 1, Len(lines) - 1)
         IN  SetEnt(st, od, "project.mk", FileEnt(kept \o IdentityBlock(od, bsp, target)))

\* A settings.json file: whether it parses, and the object it holds.
JsonFile(t) == FileEnt([parses |-> t.vscode = "ok", obj |-> t.settings])

UpdateVscodeBspKeepsBoard(st, od, bsp) ==
    LET node == st.fs[od].ent[".vscode/settings.json"]
    IN  IF node.kind = "none" THEN Raise(st, "ValidationError")
        ELSE IF ~node.data.parses THEN Raise(st, "JSONDecodeError")
        ELSE st

\* _update_vscode_bsp
UpdateVscodeBsp(st, od, bsp) ==
    LET node == st.fs[od].ent[".vscode/settings.json"]
    IN  IF node.kind = "none" THEN Raise(st, "ValidationError")
        ELSE IF ~node.data.parses THEN Raise(st, "JSONDecodeError")
        ELSE SetEnt(st, od, ".vscode/settings.json",
                    FileEnt([parses |-> TRUE,
                             obj |-> [k \in DOMAIN node.data.obj \cup {"board"} |->
                                        IF k = "board" THEN bsp ELSE node.data.obj[k]]]))

\* shutil.copytree(template/.vscode, output_dir/.vscode)
CopyTree(st, od, t, fault) ==
    IF t.vscode = "none" \/ fault = "copytree" THEN Raise(st, "OSError")
    ELSE LET s1 == SetEnt(st, od, ".vscode", DirEnt)
         IN  IF t.vscode = "nosettings" THEN s1
             ELSE SetEnt(s1, od, ".vscode/settings.json", JsonFile(t))

CopyVscode(st, od, t, bsp, include_vscode, fault) ==
    IF include_vscode /\ ~EntExists(st.fs, od, ".vscode")
    THEN Then(CopyTree(st, od, t, fault), LAMBDA s : UpdateVscodeBsp(s, od, bsp))
    ELSE st

\* The entry msdk-proj.toml as write_project_config sees it.
TomlOf(node) ==
    CASE node.kind = "none" -> TomlAbsent
      [] node.kind = "file" -> node.data
      [] OTHER -> TomlMalformed

\* "Generate TOML config from template's VSCode settings"
WriteToml(st, od, t, bsp, target, fault) ==
    IF t.vscode \notin {"ok", "malformed"} THEN st
    ELSE IF t.vscode = "malformed" THEN Raise(st, "JSONDecodeError")
    ELSE LET r == write_project_config(TomlOf(st.fs[od].ent["msdk-proj.toml"]),
                                       target, bsp, DirName(od), t.settings)
         IN  IF r.exc # "none" THEN Raise(st, r.exc)
             ELSE IF fault = "write_toml" THEN Raise(st, "OSError")
             ELSE SetEnt(st, od, "msdk-proj.toml", FileEnt(r.file))

\* _copy_template_files
CopyTemplateFiles(st, od, t, bsp, target, include_vscode, with_git, fault) ==
    Then(Then(Then(Then(Then(Then(
        MkOutputDir(st, od, fault),
        LAMBDA s : MkSubdirs(s, od, fault)),
        LAMBDA s : CopyFiles(s, od, t, fault)),
        LAMBDA s : GitKeep(s, od, with_git)),
        LAMBDA s : RewriteProjectMk(s, od, bsp, target, fault)),
        LAMBDA s : CopyVscode(s, od, t, bsp, include_vscode, fault)),
        LAMBDA s : WriteToml(s, od, t, bsp, target, fault))

\* README.md
WriteReadme(st, od, include_readme, fault) ==
    IF ~include_readme \/ EntExists(st.fs, od, "README.md") THEN st
    ELSE IF fault = "readme" THEN Raise(st, "OSError")
    ELSE SetEnt(st, od, "README.md", FileEnt(<<"# ">> \o DirName(od)))

\* _init_git(output_dir, is_cwd=...)
init_git_op(st0, od, fault) ==
    LET out_git == st0.fs[od].ent[".git"]
        st == [st0 EXCEPT !.git_seen = out_git.kind]
    IN  IF od = "cwd" /\ out_git.kind # "none" THEN st
        ELSE IF out_git.kind = "file" THEN Raise(st, "CannotProceedError")
        ELSE IF out_git.kind = "dir" THEN Raise(st, "CannotProceedError")
        ELSE CASE fault = "git_missing" -> Raise(st, "MissingToolError")
               [] fault = "git_fails"   -> Raise([st EXCEPT !.git_ran = TRUE], "CannotProceedError")
               [] OTHER -> [SetEnt(st, od, ".git", DirEnt) EXCEPT !.git_ran = TRUE]

\* The fixed ignore block (new_cont): each line with its terminator.
IgnoreBlock(vscode) ==
    <<"build/", Newline, "compile_flags.txt", Newline, "*.log", Newline,
      "*.old", Newline>>
        \o (IF vscode THEN <<".vscode", Newline>> ELSE <<>>)

write_git_ignore_once(st, od, vscode, fault) ==
    LET node == st.fs[od].ent[".gitignore"]
    IN  IF node.kind = "dir" THEN st
        ELSE IF fault = "gitignore" THEN Raise(st, "OSError")
        ELSE IF node.kind = "file" THEN st
        ELSE SetEnt(st, od, ".gitignore", FileEnt(<<Newline>> \o IgnoreBlock(vscode)))

\* _write_git_ignore: f"{old}\n{new_cont}"
write_git_ignore(st, od, vscode, fault) ==
    LET node == st.fs[od].ent[".gitignore"]
        old  == IF node.kind = "file" THEN node.data ELSE <<>>
    IN  IF node.kind = "dir" THEN st
        ELSE IF fault = "gitignore" THEN Raise(st, "OSError")
        ELSE SetEnt(st, od, ".gitignore", FileEnt(old \o <<Newline>> \o IgnoreBlock(vscode)))

InitGit(st, od, include_vscode, do_git, fault) ==
    IF ~do_git THEN st
    ELSE Then(init_git_op(st, od, fault),
              LAMBDA s : write_git_ignore(s, od, include_vscode, fault))

\* The try block of gen_proj.
GenBody(f, od, t, bsp, target, include_vscode, include_readme, do_git, fault) ==
    Then(Then(Then(
        EnsureTemplateFilesExist(Start(f), t),
        LAMBDA s : CopyTemplateFiles(s, od, t, bsp, target, include_vscode, do_git, fault)),
        LAMBDA s : WriteReadme(s, od, include_readme, fault)),
        LAMBDA s : InitGit(s, od, include_vscode, do_git, fault))

\* The except clauses of gen_proj: which exceptions set cleanup_needed.
CleanupNeeded(exc) ==
    exc \in {"OSError", "ValidationError", "CannotProceedError", "MissingToolError"}

\* The exception gen_proj hands to its caller: OSError is wrapped in MsdkError.
Reraised(exc) == IF exc = "OSError" THEN "MsdkError" ELSE exc

\* The finally clause: shutil.rmtree(output_dir)
Rollback(st, od) ==
    IF CleanupNeeded(st.exc) /\ st.fs[od].exists /\ od # "cwd"
    THEN [st EXCEPT !.fs[od] = MissingDir]
    ELSE st

\* gen_proj: the directories afterwards, the exception raised to the caller.
gen_proj(f, od, t, bsp, target, include_vscode, include_readme, do_git, fault) ==
    LET body == GenBody(f, od, t, bsp, target, include_vscode, include_readme,
                        do_git, fault)
        done == Rollback(body, od)
    IN  [done EXCEPT !.exc = Reraised(body.exc)]

\* common/validation.py ensure_proj_dir with d as cwd: TRUE when it returns.
ensure_proj_dir(f, d) ==
    f[d].exists /\ f[d].ent[".msdk-py-proj"].kind = "file"

---------------------------------------------------------------------------
(* Directories as gen_proj may find them.                                  *)

With(dir, name, node) == [dir EXCEPT !.ent[name] = node]

CwdStates ==
    { EmptyDir,
      With(EmptyDir, ".git", FileEnt(<<"gitdir: elsewhere">>)),
      With(With(With(With(With(With(EmptyDir, ".git", DirEnt),
                     "Makefile", FileEnt(<<"user Makefile">>)),
                "include", DirEnt), "include/user.h", FileEnt(<<"user header">>)),
           ".vscode", DirEnt),
           ".vscode/settings.json",
           FileEnt([parses |-> TRUE, obj |-> [board |-> <<"user board">>]])) }

ProjStates ==
    { MissingDir,
      With(EmptyDir, "README.md", FileEnt(<<"user notes">>)) }

\* One call meets at most one problem: a template that is not as it should
\* be, or a failure of the machine during the call.
OneThingWrong(t, fault) ==
    fault = "none" \/ t = Template(TRUE, TRUE, TRUE, "ok", SettingsFull)

NoCall == [od |-> "none", exc |-> "none", created |-> FALSE, pre_exists |-> FALSE,
           was_generated |-> FALSE, template_ok |-> FALSE, git_ran |-> FALSE,
           git_seen |-> "unreached", fault |-> "none", vscode |-> "none",
           include_vscode |-> FALSE, had_vscode |-> FALSE, bsp |-> <<>>,
           copied_settings |-> <<>>]

GenProj ==
    /\ calls < MaxCalls
    /\ \E od \in Dirs, t \in Templates, bsp \in Bsps, target \in Targets,
          include_vscode \in BOOLEAN, include_readme \in BOOLEAN,
          do_git \in BOOLEAN, fault \in Faults :
        LET r == gen_proj(fs, od, t, bsp, target, include_vscode, include_readme,
                          do_git, fault)
        IN  /\ OneThingWrong(t, fault)
            /\ fs' = r.fs
            /\ last' = [od            |-> od,
                        exc           |-> r.exc,
                        created       |-> r.created,
                        pre_exists    |-> fs[od].exists,
                        was_generated |-> od \in generated,
                        template_ok   |-> t.makefile /\ t.main_c /\ t.project_mk,
                        git_ran       |-> r.git_ran,
                        git_seen      |-> r.git_seen,
                        fault         |-> fault,
                        vscode        |-> t.vscode,
                        include_vscode |-> include_vscode,
                        had_vscode    |-> EntExists(fs, od, ".vscode"),
                        bsp           |-> bsp,
                        copied_settings |->
                            IF r.exc = "none" /\ include_vscode
                                              /\ ~EntExists(fs, od, ".vscode")
                            THEN t.settings ELSE <<>>]
            /\ generated' = IF r.exc = "none" THEN generated \cup {od}
                            ELSE IF ~r.fs[od].exists THEN generated \ {od}
                            ELSE generated
            /\ calls' = calls + 1
            /\ UNCHANGED <<cfgVars, runVars, mainVars, cliVars, fnVars>>

---------------------------------------------------------------------------
(* Command Runner (common/utils.py run_trusted_cmd, _out_stream)           *)
(*                                                                         *)
(* Three threads of the tool (the caller and the two readers) and the      *)
(* child process.  A pipe is a bounded buffer of lines; the child closes   *)
(* its ends when it exits.                                                 *)

MaxLines == 2
PipeCap  == 1

Streams == {"stdout", "stderr"}

\* Lines a child may write, without the newline that ends each: an empty
\* line, a word, a word followed by blank space.
LineTexts == {<<>>, <<"a">>, <<"b", " ">>}

\* Popen.wait(): 0, a failure status, or -N when signal N killed the child.
ExitCodes == {0, 1, 3, -9}

Writes == [stream : Streams, text : LineTexts]

Scripts == UNION {[1..n -> Writes] : n \in 0..MaxLines}

\* str.rstrip(): trailing whitespace (blanks, the newline) is removed.
RECURSIVE RStrip(_)
RStrip(s) ==
    IF s # <<>> /\ s[Len(s)] \in {" ", Newline}
    THEN RStrip(SubSeq(s, 1, Len(s) - 1)) ELSE s

\* Text("  |  " + line.rstrip(), style=style)
FormatLine(line) == <<"  |  ">> \o RStrip(line)

NoChild == [state |-> "none", script |-> <<>>, todo |-> <<>>, code |-> 0]

IdlePipes   == [s \in Streams |-> [buf |-> <<>>, closed |-> FALSE]]
IdleReaders == [s \in Streams |-> [pc |-> "idle", line |-> <<>>, closed |-> FALSE]]
NoOutcome   == [kind |-> "none", code |-> 0]

Cout(who, text) == console' = Append(console, [src |-> who, text |-> text])

\* cout("Running command: ...")
RunBanner ==
    /\ mpc = "start"
    /\ Cout("main", <<"Running command">>)
    /\ mpc' = "popen"
    /\ UNCHANGED <<child, pipes, rd, outcome>>
    /\ UNCHANGED <<genVars, cfgVars, mainVars, cliVars, fnVars>>

\* sproc.Popen(cmd, stdout=PIPE, stderr=PIPE, text=True, env=env)
Popen ==
    /\ mpc = "popen"
    /\ \E script \in Scripts, code \in ExitCodes :
           child' = [state |-> "running", script |-> script, todo |-> script,
                     code |-> code]
    /\ mpc' = "start_out"
    /\ UNCHANGED <<pipes, rd, console, outcome>>
    /\ UNCHANGED <<genVars, cfgVars, mainVars, cliVars, fnVars>>

\* Popen raises (the program is not found): run_trusted_cmd raises OSError.
PopenFails ==
    /\ mpc = "popen"
    /\ mpc' = "done"
    /\ outcome' = [kind |-> "OSError", code |-> 0]
    /\ UNCHANGED <<child, pipes, rd, console>>
    /\ UNCHANGED <<genVars, cfgVars, mainVars, cliVars, fnVars>>

\* t_out.start(); t_err.start()
StartReader(at, s, next) ==
    /\ mpc = at
    /\ rd' = [rd EXCEPT ![s].pc = "read"]
    /\ mpc' = next
    /\ UNCHANGED <<child, pipes, console, outcome>>
    /\ UNCHANGED <<genVars, cfgVars, mainVars, cliVars, fnVars>>

StartOut == StartReader("start_out", "stdout", "start_err")
StartErrAfterOutFinished ==
    /\ rd["stdout"].pc = "done"
    /\ StartReader("start_err", "stderr", "join_out")

StartErr == StartReader("start_err", "stderr", "join_out")

JoinReadyNoWait(s) == TRUE

\* Thread.join() returns once the thread has finished.
JoinReady(s) == rd[s].pc = "done"

Join(at, s, next) ==
    /\ mpc = at
    /\ JoinReady(s)
    /\ mpc' = next
    /\ UNCHANGED <<child, pipes, rd, console, outcome>>
    /\ UNCHANGED <<genVars, cfgVars, mainVars, cliVars, fnVars>>

JoinOut == Join("join_out", "stdout", "join_err")
JoinErrJoinsOut == Join("join_err", "stdout", "bar")

JoinErr == Join("join_err", "stderr", "bar")

\* cout("  |")
RunBar ==
    /\ mpc = "bar"
    /\ Cout("main", <<"  |">>)
    /\ mpc' = "wait"
    /\ UNCHANGED <<child, pipes, rd, outcome>>
    /\ UNCHANGED <<genVars, cfgVars, mainVars, cliVars, fnVars>>

WaitResultPositive(errno) ==
    IF errno > 0 THEN [kind |-> "CannotProceedError", code |-> errno]
    ELSE [kind |-> "returned", code |-> errno]

\* if (errno := proc.wait()) != 0: raise CannotProceedError(...)
WaitResult(errno) ==
    IF errno # 0 THEN [kind |-> "CannotProceedError", code |-> errno]
    ELSE [kind |-> "returned", code |-> errno]

Wait ==
    /\ mpc = "wait"
    /\ child.state = "exited"
    /\ outcome' = WaitResult(child.code)
    /\ IF child.code = 0 THEN Cout("main", <<"Command succeeded">>)
                         ELSE UNCHANGED console
    /\ mpc' = "done"
    /\ UNCHANGED <<child, pipes, rd>>
    /\ UNCHANGED <<genVars, cfgVars, mainVars, cliVars, fnVars>>

\* The child writes its next line; it blocks while the pipe is full.
ChildWrite ==
    /\ child.state = "running"
    /\ child.todo # <<>>
    /\ LET w == Head(child.todo)
       IN  /\ Len(pipes[w.stream].buf) < PipeCap
           /\ pipes' = [pipes EXCEPT ![w.stream].buf = Append(@, w.text \o <<Newline>>)]
    /\ child' = [child EXCEPT !.todo = Tail(@)]
    /\ UNCHANGED <<rd, console, mpc, outcome>>
    /\ UNCHANGED <<genVars, cfgVars, mainVars, cliVars, fnVars>>

\* The child exits: its ends of both pipes are closed.
ChildExit ==
    /\ child.state = "running"
    /\ child.todo = <<>>
    /\ child' = [child EXCEPT !.state = "exited"]
    /\ pipes' = [s \in Streams |-> [pipes[s] EXCEPT !.closed = TRUE]]
    /\ UNCHANGED <<rd, console, mpc, outcome>>
    /\ UNCHANGED <<genVars, cfgVars, mainVars, cliVars, fnVars>>

\* pipe.readline(): the next line with its newline, or "" at end of file
\* (the pipe is empty and the child has closed it).
Readline(pipe) == IF pipe.buf # <<>> THEN Head(pipe.buf) ELSE <<>>

\* for line in iter(pipe.readline, ""): ...
\* readline blocks while the pipe is empty and still open.
ReadLine(s) ==
    /\ rd[s].pc = "read"
    /\ pipes[s].buf # <<>> \/ pipes[s].closed
    /\ LET line == Readline(pipes[s])
       IN  /\ rd' = [rd EXCEPT ![s].pc = IF line = <<>> THEN "close" ELSE "print",
                                ![s].line = line]
           /\ pipes' = [pipes EXCEPT ![s].buf = IF @ = <<>> THEN @ ELSE Tail(@)]
    /\ UNCHANGED <<child, console, mpc, outcome>>
    /\ UNCHANGED <<genVars, cfgVars, mainVars, cliVars, fnVars>>

\* cout(Text("  |  " + line.rstrip(), style=style))
PrintLine(s) ==
    /\ rd[s].pc = "print"
    /\ Cout(s, FormatLine(rd[s].line))
    /\ rd' = [rd EXCEPT ![s].pc = "read", ![s].line = <<>>]
    /\ UNCHANGED <<child, pipes, mpc, outcome>>
    /\ UNCHANGED <<genVars, cfgVars, mainVars, cliVars, fnVars>>

\* pipe.close(), the last statement of _out_stream: the thread has finished.
ClosePipe(s) ==
    /\ rd[s].pc = "close"
    /\ rd' = [rd EXCEPT ![s].pc = "done", ![s].closed = TRUE]
    /\ UNCHANGED <<child, pipes, console, mpc, outcome>>
    /\ UNCHANGED <<genVars, cfgVars, mainVars, cliVars, fnVars>>

OutStreamOf(s) == ReadLine(s) \/ PrintLine(s) \/ ClosePipe(s)

OutStream == \E s \in Streams : OutStreamOf(s)

---------------------------------------------------------------------------
(* Entry point (__main__.py main)                                          *)

MaxRuns == 2

\* What args.run_cmd(args) does: it returns, or raises one of these.
CommandResults ==
    {"return", "ValidationError", "CannotProceedError", "MissingToolError",
     "MsdkError", "KeyboardInterrupt", "JSONDecodeError", "TypeError"}

\* What input("See traceback? (y/n): ") gives; "EOF": stdin is at end of file.
Answers == {"y", "n", "EOF"}

\* The exit status of the process that ran main.  An exception that no
\* except clause of main catches (and the EOFError of input()) ends the
\* interpreter with a traceback and status 1.
main_exit(result, answer) ==
    IF result \in MsdkSubclasses THEN 1
    ELSE IF IsMsdkError(result) THEN (IF answer = "EOF" THEN 1 ELSE 2)
    ELSE IF result = "KeyboardInterrupt" THEN 130
    ELSE IF result = "return" THEN 0
    ELSE 1

Main ==
    /\ Len(exits) < MaxRuns
    /\ \E result \in CommandResults, answer \in Answers :
           exits' = Append(exits, [result |-> result,
                                   answer |-> IF IsMsdkError(result) /\ result \notin MsdkSubclasses
                                              THEN answer ELSE "-",
                                   status |-> main_exit(result, answer)])
    /\ UNCHANGED <<genVars, cfgVars, runVars, cliVars, fnVars>>

---------------------------------------------------------------------------
(* Toolchain discovery (common/utils.py find_maxim_toolchain)              *)
(*                                                                         *)
(* A directory name is a sequence of characters, so that the split at the  *)
(* dots and the conversion of each component to an integer are computed.   *)

Digits == {"0", "1", "2", "3", "4", "5", "6", "7", "8", "9"}

DigitVal(c) ==
    CASE c = "0" -> 0 [] c = "1" -> 1 [] c = "2" -> 2 [] c = "3" -> 3
      [] c = "4" -> 4 [] c = "5" -> 5 [] c = "6" -> 6 [] c = "7" -> 7
      [] c = "8" -> 8 [] c = "9" -> 9

\* str.split("."): the components between the dots (empty ones included).
RECURSIVE SplitAcc(_, _)
SplitAcc(s, cur) ==
    IF s = <<>> THEN <<cur>>
    ELSE IF Head(s) = "." THEN <<cur>> \o SplitAcc(Tail(s), <<>>)
    ELSE SplitAcc(Tail(s), Append(cur, Head(s)))

Split(s) == SplitAcc(s, <<>>)

\* int(x) raises ValueError unless x is a non-empty run of digits (signs,
\* blanks and underscores do not occur in the names considered).
IntRaises(x) == x = <<>> \/ \E i \in 1..Len(x) : x[i] \notin Digits

\* int(x) of a run of digits
RECURSIVE IntOf(_)
IntOf(x) ==
    IF x = <<>> THEN 0
    ELSE 10 * IntOf(SubSeq(x, 1, Len(x) - 1)) + DigitVal(x[Len(x)])

\* key=lambda p: [int(x) for x in p.name.split(".")]
VersionKeyRaises(name) ==
    \E i \in 1..Len(Split(name)) : IntRaises(Split(name)[i])

VersionKey(name) == [i \in 1..Len(Split(name)) |-> IntOf(Split(name)[i])]

\* Python's order on lists of integers: a < b
RECURSIVE ListLess(_, _)
ListLess(a, b) ==
    IF b = <<>> THEN FALSE
    ELSE IF a = <<>> THEN TRUE
    ELSE IF Head(a) # Head(b) THEN Head(a) < Head(b)
    ELSE ListLess(Tail(a), Tail(b))

\* The code points of the characters, for Python's order on strings.
CharOrd(c) == IF c = "." THEN 46 ELSE IF c \in Digits THEN 48 + DigitVal(c) ELSE 120

RECURSIVE StrLess(_, _)
StrLess(a, b) ==
    IF b = <<>> THEN FALSE
    ELSE IF a = <<>> THEN TRUE
    ELSE IF Head(a) # Head(b) THEN CharOrd(Head(a)) < CharOrd(Head(b))
    ELSE StrLess(Tail(a), Tail(b))

SortsBeforeLexicographic(n1, n2) == StrLess(n1, n2)

\* versions.sort(key=...): n1 sorts strictly before n2
SortsBefore(n1, n2) == ListLess(VersionKey(n1), VersionKey(n2))

\* Entries of Tools/GNUTools: name, whether a directory, whether it has a
\* bin subdirectory.
Entry(name, kind, bin) == [name |-> name, kind |-> kind, bin |-> bin]

GnuToolsPool ==
    { Entry(<<"1", ".", "2", ".", "0">>, "dir", TRUE),
      Entry(<<"1", ".", "1", "0", ".", "0">>, "dir", TRUE),
      Entry(<<"1", ".", "9", ".", "5">>, "dir", TRUE),
      Entry(<<"1", ".", "1", "0">>, "dir", FALSE),
      Entry(<<"0", "1", ".", "1", "0", ".", "0">>, "dir", TRUE),
      Entry(<<"2", ".", "0">>, "file", FALSE),
      Entry(<<"x", "x">>, "dir", TRUE),
      Entry(<<"9", ".", "x">>, "dir", TRUE) }

GnuTools(exists, entries) == [exists |-> exists, entries |-> entries]

\* Tools/GNUTools as the function may find it: missing, or with any entries
\* of the pool.
GnuToolsListings ==
    {GnuTools(FALSE, {})} \cup {GnuTools(TRUE, s) : s \in SUBSET GnuToolsPool}

\* find_maxim_toolchain: the results it can give for a listing.  list.sort is
\* stable and iterdir gives the entries in arbitrary order, so among
\* versions with equal keys any one can come last.
find_maxim_toolchain(gnu_tools) ==
    LET versions == {d \in gnu_tools.entries :
                        d.kind = "dir" /\ Head(d.name) \in Digits}
        last_ones == {d \in versions :
                        \A o \in versions : ~SortsBefore(d.name, o.name)}
    IN  IF ~gnu_tools.exists THEN {[kind |-> "ValidationError", version |-> <<>>]}
        ELSE IF versions = {} THEN {[kind |-> "MissingToolError", version |-> <<>>]}
        ELSE IF \E d \in versions : VersionKeyRaises(d.name)
            THEN {[kind |-> "ValueError", version |-> <<>>]}
        ELSE {IF d.bin THEN [kind |-> "path", version |-> d.name]
                       ELSE [kind |-> "ValidationError", version |-> d.name] :
              d \in last_ones}

NoToolchain == [gnu_tools |-> GnuTools(FALSE, {}), result |-> [kind |-> "none", version |-> <<>>]]

FindMaximToolchain ==
    /\ tc.result.kind = "none"
    /\ \E r \in find_maxim_toolchain(tc.gnu_tools) :
           tc' = [tc EXCEPT !.result = r]
    /\ UNCHANGED <<ide, gitig, cp>>
    /\ UNCHANGED <<genVars, cfgVars, runVars, mainVars, cliVars>>

---------------------------------------------------------------------------
(* extract_flash_config_from_vscode applied to IDE settings documents      *)

\* An optional value: None, or the value.
None    == <<>>
Some(x) == <<x>>

\* Settings documents: program_file and symbol_file present or not, written
\* with the tokens or literally, with and without the other keys.
ProgramFileTemplates ==
    {None, Some(<<TokProjectName, ".elf">>), Some(<<"app.elf">>),
     Some(<<"out/", TokProjectName, "-", TokProjectName, ".elf">>)}

SymbolFileTemplates ==
    {None, Some(<<TokProgramFile>>), Some(<<TokProjectName, ".sym">>),
     Some(<<TokProgramFile, ".dbg">>), Some(<<"app.sym">>),
     Some(<<TokProjectName, "/", TokProgramFile>>)}

OtherSettings ==
    {[target |-> <<"MAX32655">>, board |-> <<"EvKit_V1">>,
      M4_OCD_interface_file |-> <<"cmsis-dap.cfg">>,
      M4_OCD_target_file |-> <<"max32655.cfg">>],
     [target |-> <<"MAX32690">>]}

MkSettings(pf, sf, rest) ==
    [k \in DOMAIN rest \cup (IF pf = None THEN {} ELSE {"program_file"})
                       \cup (IF sf = None THEN {} ELSE {"symbol_file"}) |->
        IF k = "program_file" THEN pf[1]
        ELSE IF k = "symbol_file" THEN sf[1]
        ELSE rest[k]]

IdeProjectNames == {<<"demo">>, <<"proj">>}

NoIde == [settings |-> MkSettings(None, None, [target |-> <<"MAX32690">>]),
          project_name |-> <<"demo">>, done |-> FALSE,
          out |-> [program_file |-> <<>>, symbol_file |-> <<>>]]

ExtractFlashConfig ==
    /\ ~ide.done
    /\ LET r == extract_flash_config_from_vscode(ide.settings, ide.project_name)
       IN  ide' = [ide EXCEPT !.done = TRUE,
                              !.out = [program_file |-> r.program_file,
                                       symbol_file  |-> r.symbol_file]]
    /\ UNCHANGED <<tc, gitig, cp>>
    /\ UNCHANGED <<genVars, cfgVars, runVars, mainVars, cliVars>>

---------------------------------------------------------------------------
(* _write_git_ignore applied again and again to one directory (cwd)        *)

MaxIgnoreRuns == 3

\* .gitignore as the function may find it.
GitIgnoreNodes ==
    {NoEnt, DirEnt, FileEnt(<<>>), FileEnt(<<"*.o", Newline>>), FileEnt(<<"*.o">>),
     FileEnt(<<"build/", Newline>>)}

NoGitIgnore == [initial |-> NoEnt, runs |-> <<>>]

WriteGitIgnore ==
    /\ Len(gitig.runs) < MaxIgnoreRuns
    /\ \E vscode \in BOOLEAN, fault \in {"none", "gitignore"} :
        LET r == write_git_ignore(Start(fs), "cwd", vscode, fault)
        IN  /\ fs' = r.fs
            /\ gitig' = [gitig EXCEPT
                           !.runs = Append(@, [vscode |-> vscode, exc |-> r.exc])]
    /\ UNCHANGED <<last, generated, calls>>
    /\ UNCHANGED <<tc, ide, cp>>
    /\ UNCHANGED <<cfgVars, runVars, mainVars, cliVars>>

---------------------------------------------------------------------------
(* gen_proj applied to one directory, with the directory as it was before  *)
(* the call kept for comparison.                                           *)

\* project.mk files of SDK examples: empty, the placeholder alone, two and
\* three lines.
MkLineSets ==
    { <<>>,
      << <<"# Add your config here!">> >>,
      TemplateLines,
      << <<"# project.mk of the example">>, <<"DEBUG=1">>,
         <<"# Add your config here!">> >> }

CopyTemplates ==
    Templates \cup
    { [Template(TRUE, TRUE, TRUE, "ok", SettingsFull) EXCEPT !.mk_lines = l] :
         l \in MkLineSets }

\* The directory a successful gen_proj leaves behind when it adopts an empty
\* directory (git support requested).
GeneratedDir ==
    gen_proj([cwd |-> EmptyDir, proj |-> MissingDir], "cwd",
             Template(TRUE, TRUE, TRUE, "ok", SettingsFull),
             <<"FTHR_RevA">>, <<"MAX32655">>, TRUE, TRUE, TRUE, "none").fs["cwd"]

\* Current directories an adopting call may find: empty, with an empty or a
\* used include/, with sources of the user's own, with a project.mk of the
\* user's own, an earlier generated project.
TreeCwdStates ==
    { EmptyDir,
      With(EmptyDir, "include", DirEnt),
      With(With(EmptyDir, "include", DirEnt),
           "include/user.h", FileEnt(<<"user header">>)),
      With(With(With(EmptyDir, "Makefile", FileEnt(<<"user Makefile">>)),
                "src", DirEnt),
           "src/main.c", FileEnt(<<"user main.c">>)),
      With(EmptyDir, "project.mk", FileEnt(<< <<"USER=1">> >>)),
      GeneratedDir }

NoCopy == [pc |-> "none"]

\* One gen_proj call.
GenProjOnTree ==
    /\ cp.pc = "none"
    /\ \E od \in Dirs, t \in CopyTemplates, bsp \in Bsps, target \in Targets,
          include_vscode \in BOOLEAN, include_readme \in BOOLEAN,
          do_git \in BOOLEAN, fault \in Faults :
        LET r == gen_proj(fs, od, t, bsp, target, include_vscode, include_readme,
                          do_git, fault)
        IN  /\ OneThingWrong(t, fault)
            /\ fs' = r.fs
            /\ cp' = [pc |-> "done", od |-> od, pre |-> fs[od].ent,
                      mk_lines |-> t.mk_lines, bsp |-> bsp, target |-> target,
                      do_git |-> do_git, exc |-> r.exc,
                      mk_copied |-> r.mk_copied]
    /\ UNCHANGED <<last, generated, calls>>
    /\ UNCHANGED <<tc, ide, gitig>>
    /\ UNCHANGED <<cfgVars, runVars, mainVars, cliVars>>

---------------------------------------------------------------------------
(* One invocation of the tool from the command line: main parses the       *)
(* arguments, sets quiet mode, and runs the command's execute.             *)

NoInvocation ==
    [pc |-> "none", quiet |-> FALSE, cmd |-> "none", args |-> <<>>,
     env |-> <<>>, exc |-> "none", ran |-> <<>>, git_ran |-> FALSE,
     pre_git |-> "none"]

\* common/display.py set_quiet_mode: the value of the module global
\* _QUIET_MODE afterwards.  The function assigns to the name _QUIET_MODE
\* without declaring it global, which binds a local variable.
set_quiet_mode(global, enabled) == global

\* common/display.py is_quiet_mode
is_quiet_mode == quietMode

\* A new process: the module global is initialised, the arguments are parsed.
MainParseArgs ==
    /\ inv.pc = "none"
    /\ \E q \in BOOLEAN :
           inv' = [NoInvocation EXCEPT !.pc = "parsed", !.quiet = q]
    /\ quietMode' = FALSE
    /\ UNCHANGED <<genVars, cfgVars, runVars, mainVars, fnVars>>

\* if args.quiet: set_quiet_mode(True)
MainSetQuiet ==
    /\ inv.pc = "parsed"
    /\ quietMode' = IF inv.quiet THEN set_quiet_mode(quietMode, TRUE) ELSE quietMode
    /\ inv' = [inv EXCEPT !.pc = "command"]
    /\ UNCHANGED <<genVars, cfgVars, runVars, mainVars, fnVars>>

\* What the SDK installation lacks, as the validators of init find it.
SdkStates == {"ok", "no_maxim_path", "no_target", "no_bsp"}

\* The project_name argument of init: ".", a conventional name, a name that
\* does not match ^[a-zA-Z][a-zA-Z0-9_-]*$.
InitNames == {<<".">>, <<"proj">>, <<"9proj">>}

ConventionalNames == {<<"proj">>, <<"demo">>, <<"app">>}

\* ensure_conventional_path_name(name, is_dir=True): TRUE when it raises.
EnsureConventionalRaises(name) == name \notin ConventionalNames

\* validate_proj_name: the exception it raises ("none" when it returns).
validate_proj_name(f, name, allow_cwd) ==
    IF name # <<".">>
    THEN IF EnsureConventionalRaises(name) THEN "ValidationError"
         ELSE IF f["proj"].exists THEN "ValidationError"
         ELSE "none"
    ELSE IF ~allow_cwd THEN "ValidationError"
    ELSE "none"

\* The parameters gen_proj declares, and the keywords InitCommand.execute
\* passes to it.
GenProjParams ==
    {"maxim_path", "output_dir", "target", "bsp", "template",
     "include_vscode", "include_readme", "init_git"}

InitCallKeywords ==
    {"maxim_path", "output_dir", "target", "bsp", "template",
     "include_vscode", "include_readme", "init_git", "reinit_git"}

\* A Python call binds when every keyword names a parameter; otherwise the
\* call raises TypeError before the function body runs.
CallBinds(keywords, params) == keywords \subseteq params

\* InitCommand.execute
InitExecute ==
    /\ inv.pc = "command"
    /\ \E name \in InitNames, allow_cwd \in BOOLEAN, sdk \in SdkStates,
          t \in Templates, bsp \in Bsps, target \in Targets,
          include_vscode \in BOOLEAN, include_readme \in BOOLEAN,
          init_git \in BOOLEAN, reinit_git \in BOOLEAN :
        LET od  == IF name = <<".">> THEN "cwd" ELSE "proj"
            v   == IF sdk # "ok" THEN "ValidationError"
                   ELSE validate_proj_name(fs, name, allow_cwd)
            r   == IF v # "none" THEN Raise(Start(fs), v)
                   ELSE IF ~CallBinds(InitCallKeywords, GenProjParams)
                        THEN Raise(Start(fs), "TypeError")
                   ELSE gen_proj(fs, od, t, bsp, target, include_vscode,
                                 include_readme, init_git, "none")
        IN  /\ fs' = r.fs
            /\ inv' = [inv EXCEPT
                         !.pc = "exited", !.cmd = "init",
                         !.args = [name |-> name, allow_cwd |-> allow_cwd,
                                   include_vscode |-> include_vscode,
                                   include_readme |-> include_readme,
                                   init_git |-> init_git, reinit_git |-> reinit_git],
                         !.env = [sdk |-> sdk, validated |-> v = "none"],
                         !.exc = r.exc, !.git_ran = r.git_ran,
                         !.pre_git = fs[od].ent[".git"].kind]
    /\ UNCHANGED <<last, generated, calls>>
    /\ UNCHANGED <<quietMode>>
    /\ UNCHANGED <<cfgVars, runVars, mainVars, fnVars>>

\* str.strip(): blanks removed at both ends.
RECURSIVE LStrip(_)
LStrip(s) == IF s # <<>> /\ Head(s) \in {" ", Newline} THEN LStrip(Tail(s)) ELSE s

Strip(s) == LStrip(RStrip(s))

\* The running state of one command: the exception in flight, the external
\* commands run so far, the .elf in build/ (whether it is there, its mtime).
CmdStart(elf) == [exc |-> "none", ran |-> <<>>, elf |-> elf, ret |-> FALSE]

ElfStates == {[exists |-> FALSE, mtime |-> 0], [exists |-> TRUE, mtime |-> 1]}

\* What `make` does to the .elf, and the exit statuses of make and gdb.
MakeEffects == {"none", "write"}
CmdCodes    == {0, 2}

\* The Tools/GNUTools listings of the machine the commands run on.
GnuToolsEnvs ==
    { GnuTools(TRUE, {}),
      GnuTools(TRUE, {Entry(<<"1", ".", "9", ".", "5">>, "dir", TRUE),
                      Entry(<<"1", ".", "1", "0", ".", "0">>, "dir", TRUE)}) }

EnsureProjDirAnyEntry(cs, f) ==
    IF EntExists(f, "cwd", ".msdk-py-proj") THEN cs ELSE Raise(cs, "ValidationError")

\* ensure_proj_dir() as a step of a command
EnsureProjDir(cs, f) ==
    IF ensure_proj_dir(f, "cwd") THEN cs ELSE Raise(cs, "ValidationError")

\* validate_maxim_path() as a step of a command
ValidateMaximPath(cs, env) ==
    IF env.maxim THEN cs ELSE Raise(cs, "ValidationError")

\* find_maxim_toolchain(maxim_path) as a step of a command (the listings of
\* GnuToolsEnvs have one result each)
FindToolchain(cs, env) ==
    LET r == CHOOSE x \in find_maxim_toolchain(env.gnu_tools) : TRUE
    IN  IF r.kind = "path" THEN cs ELSE Raise(cs, r.kind)

\* run_trusted_cmd(cmd) as a step of a command: the command runs, and the
\* call raises as WaitResult says.
RunTrustedCmd(cs, prog, arg, code) ==
    LET w  == WaitResult(code)
        c1 == [cs EXCEPT !.ran = Append(@, [prog |-> prog, arg |-> arg])]
    IN  IF w.kind = "returned" THEN c1 ELSE Raise(c1, w.kind)

\* make rebuilds the .elf or leaves it alone.
MakeRuns(cs, arg, env) ==
    LET c1 == IF env.make_effect = "write"
              THEN [cs EXCEPT !.elf = [exists |-> TRUE, mtime |-> cs.elf.mtime + 1]]
              ELSE cs
    IN  RunTrustedCmd(c1, "make", arg, env.make_code)

\* common/build.py: project_str
ProjectStr(project_name) ==
    IF project_name = None \/ Strip(project_name[1]) = <<".">> THEN <<>>
    ELSE <<" PROJECT=">> \o project_name[1]

\* common/build.py build_project: ret is the value it returns.
build_project(cs0, f, project_name, check_modified, env) ==
    LET mtime_before == IF check_modified
                        THEN (IF cs0.elf.exists THEN cs0.elf.mtime ELSE 0)
                        ELSE 0
        built == Then(Then(Then(
                    EnsureProjDir(cs0, f),
                    LAMBDA c : ValidateMaximPath(c, env)),
                    LAMBDA c : FindToolchain(c, env)),
                    LAMBDA c : MakeRuns(c, ProjectStr(project_name), env))
    IN  IF built.exc # "none" THEN built
        ELSE [built EXCEPT !.ret = /\ check_modified
                                   /\ built.elf.exists
                                   /\ built.elf.mtime > mtime_before]

\* utils.get_ocd_bin(config.ocd_path): the directory of the OpenOCD binary.
get_ocd_bin(cs, env) == IF env.ocd_bin THEN cs ELSE Raise(cs, "ValidationError")

ValidateBuildFilesProgramOnly(cs, config, env) ==
    IF ~cs.elf.exists THEN Raise(cs, "ValidationError") ELSE cs

\* _validate_build_file for the program file, then for the symbol file (the
\* same file when the configuration names the .elf twice).
ValidateBuildFiles(cs, config, env) ==
    IF ~cs.elf.exists THEN Raise(cs, "ValidationError")
    ELSE IF config.symbol_file # config.program_file /\ ~env.symbol
        THEN Raise(cs, "ValidationError")
    ELSE cs

\* commands/flash _flash_device(config, run=...)
flash_device(cs0, config, run, env) ==
    LET gdb_func == IF run THEN "flash_m4_run" ELSE "flash_m4"
    IN  Then(Then(Then(Then(
            ValidateBuildFiles(cs0, config, env),
            LAMBDA c : ValidateMaximPath(c, env)),
            LAMBDA c : FindToolchain(c, env)),
            LAMBDA c : get_ocd_bin(c, env)),
            LAMBDA c : RunTrustedCmd(c, "gdb", <<gdb_func>>,
                                     IF run THEN env.run_code ELSE env.flash_code))

\* load_flash_config() as a step of a command
LoadFlashConfig(cs, config) ==
    IF config.kind = "FlashConfig" THEN cs ELSE Raise(cs, config.kind)

\* The environment of one build, flash or run command.
CmdEnvs ==
    [maxim : BOOLEAN, gnu_tools : GnuToolsEnvs, elf : ElfStates, symbol : BOOLEAN,
     make_effect : MakeEffects, make_code : CmdCodes, ocd_bin : BOOLEAN,
     flash_code : CmdCodes, run_code : CmdCodes]

\* The -o argument of build: not given, a conventional name, ".", ". ".
OutArgs == {None, Some(<<"app">>), Some(<<".">>), Some(<<".", " ">>)}

\* BuildCommand.execute: the value of `out` (None: fall back to project.mk).
BuildOut(out_arg) ==
    IF out_arg = None \/ Strip(out_arg[1]) # <<".">> THEN None ELSE out_arg

\* BuildCommand.execute: ensure_conventional_path_name is called in the
\* branch that keeps args.out.
BuildCheckOut(cs, out_arg) ==
    IF BuildOut(out_arg) # None /\ EnsureConventionalRaises(out_arg[1])
    THEN Raise(cs, "ValidationError") ELSE cs

\* f"{'' if out is None else ' PROJECT={out}'}": the inner literal is not
\* itself formatted.
BuildMakeArg(out) == IF out = None THEN <<>> ELSE <<" PROJECT={out}">>

\* BuildCommand.execute
BuildExecute ==
    /\ inv.pc = "command"
    /\ \E out_arg \in OutArgs, env \in CmdEnvs :
        LET r == Then(Then(Then(Then(
                    EnsureProjDir(CmdStart(env.elf), fs),
                    LAMBDA c : ValidateMaximPath(c, env)),
                    LAMBDA c : BuildCheckOut(c, out_arg)),
                    LAMBDA c : FindToolchain(c, env)),
                    LAMBDA c : MakeRuns(c, BuildMakeArg(BuildOut(out_arg)), env))
        IN  inv' = [inv EXCEPT !.pc = "exited", !.cmd = "build",
                               !.args = [out |-> out_arg],
                               !.env = env, !.exc = r.exc, !.ran = r.ran]
    /\ UNCHANGED <<quietMode>>
    /\ UNCHANGED <<genVars, cfgVars, runVars, mainVars, fnVars>>

\* FlashCommand.execute
FlashExecute ==
    /\ inv.pc = "command"
    /\ \E skip_build \in BOOLEAN, env \in CmdEnvs :
        LET config == load_flash_config(TomlOf(fs["cwd"].ent["msdk-proj.toml"]), gdbScript, ocdDir)
            c1 == EnsureProjDir(CmdStart(env.elf), fs)
            c2 == IF skip_build THEN c1
                  ELSE Then(c1, LAMBDA c : build_project(c, fs, None, FALSE, env))
            r  == Then(Then(c2,
                            LAMBDA c : LoadFlashConfig(c, config)),
                            LAMBDA c : flash_device(c, config, FALSE, env))
        IN  inv' = [inv EXCEPT !.pc = "exited", !.cmd = "flash",
                               !.args = [skip_build |-> skip_build],
                               !.env = env, !.exc = r.exc, !.ran = r.ran]
    /\ UNCHANGED <<quietMode>>
    /\ UNCHANGED <<genVars, cfgVars, runVars, mainVars, fnVars>>

\* CleanCommand.execute and CleanPeriphExecute.execute: ensure_proj_dir(),
\* then run_trusted_cmd(["make", goal]).
MakeGoalExecute(cmd, goal) ==
    /\ inv.pc = "command"
    /\ \E elf \in ElfStates, code \in CmdCodes :
        LET r == Then(EnsureProjDir(CmdStart(elf), fs),
                      LAMBDA c : RunTrustedCmd(c, "make", <<goal>>, code))
        IN  inv' = [inv EXCEPT !.pc = "exited", !.cmd = cmd,
                               !.env = [elf |-> elf, make_code |-> code],
                               !.exc = r.exc, !.ran = r.ran]
    /\ UNCHANGED <<quietMode>>
    /\ UNCHANGED <<genVars, cfgVars, runVars, mainVars, fnVars>>

CleanExecute == MakeGoalExecute("clean", "clean")

CleanPeriphExecute == MakeGoalExecute("clean-periph", "distclean")

NeedFlashAlways(skip_flash, skip_build, elf_modified) == TRUE

\* RunCommand.execute: need_flash when the flash step is reached
NeedFlash(skip_flash, skip_build, elf_modified) ==
    IF ~skip_build /\ elf_modified THEN TRUE ELSE ~skip_flash

\* RunCommand.execute
RunExecute ==
    /\ inv.pc = "command"
    /\ \E skip_build \in BOOLEAN, skip_flash \in BOOLEAN, env \in CmdEnvs :
        LET config == load_flash_config(TomlOf(fs["cwd"].ent["msdk-proj.toml"]), gdbScript, ocdDir)
            c1 == Then(EnsureProjDir(CmdStart(env.elf), fs),
                       LAMBDA c : LoadFlashConfig(c, config))
            c2 == IF skip_build THEN c1
                  ELSE Then(c1, LAMBDA c : build_project(c, fs, None, TRUE, env))
            c3 == IF NeedFlash(skip_flash, skip_build, c2.ret)
                  THEN Then(c2, LAMBDA c : flash_device(c, config, FALSE, env))
                  ELSE c2
            r  == Then(c3, LAMBDA c : flash_device(c, config, TRUE, env))
        IN  inv' = [inv EXCEPT !.pc = "exited", !.cmd = "run",
                               !.args = [skip_build |-> skip_build,
                                         skip_flash |-> skip_flash],
                               !.env = env, !.exc = r.exc, !.ran = r.ran]
    /\ UNCHANGED <<quietMode>>
    /\ UNCHANGED <<genVars, cfgVars, runVars, mainVars, fnVars>>

\* Directories the commands are invoked in: not a project, a project as init
\* is meant to leave it (marker, configuration, repository).
ProjectDir(settings) ==
    With(With(With(EmptyDir, ".msdk-py-proj", FileEnt(<<>>)),
              "msdk-proj.toml",
              FileEnt(TomlDoc(TomlData(<<"MAX32655">>, <<"EvKit_V1">>, <<"work">>,
                                       settings)))),
         ".git", DirEnt)

CliCwdStates ==
    { EmptyDir,
      With(With(EmptyDir, ".git", DirEnt), "Makefile", FileEnt(<<"user Makefile">>)),
      With(EmptyDir, ".msdk-py-proj", FileEnt(<<>>)),
      With(ProjectDir(SettingsFull), ".msdk-py-proj", DirEnt),
      ProjectDir(SettingsFull),
      ProjectDir(SettingsLiteral) }

---------------------------------------------------------------------------
(* Specifications: one per part of the program; the other parts stay idle. *)

IdleFs == [cwd |-> EmptyDir, proj |-> MissingDir]

\* Project generation: gen_proj called on directories as it may find them.
InitGen ==
    /\ fs \in {[cwd |-> c, proj |-> p] : c \in CwdStates, p \in ProjStates}
    /\ last = NoCall
    /\ generated = {}
    /\ calls = 0
    /\ toml = TomlAbsent
    /\ gdbScript = TRUE
    /\ ocdDir = TRUE
    /\ loaded = NotLoaded
    /\ edits = 0
    /\ origin = "none"
    /\ child = NoChild
    /\ pipes = IdlePipes
    /\ rd = IdleReaders
    /\ console = <<>>
    /\ mpc = "start"
    /\ outcome = NoOutcome
    /\ exits = <<>>
    /\ quietMode = FALSE
    /\ inv = NoInvocation
    /\ tc = NoToolchain
    /\ ide = NoIde
    /\ gitig = NoGitIgnore
    /\ cp = NoCopy

NextGen == GenProj

SpecGen == InitGen /\ [][NextGen]_vars

\* The configuration document of the project in cwd.
InitCfg ==
    /\ fs = IdleFs
    /\ last = NoCall
    /\ generated = {}
    /\ calls = 0
    /\ toml = TomlAbsent
    /\ gdbScript \in BOOLEAN
    /\ ocdDir \in BOOLEAN
    /\ loaded = NotLoaded
    /\ edits = 0
    /\ origin = "none"
    /\ child = NoChild
    /\ pipes = IdlePipes
    /\ rd = IdleReaders
    /\ console = <<>>
    /\ mpc = "start"
    /\ outcome = NoOutcome
    /\ exits = <<>>
    /\ quietMode = FALSE
    /\ inv = NoInvocation
    /\ tc = NoToolchain
    /\ ide = NoIde
    /\ gitig = NoGitIgnore
    /\ cp = NoCopy

NextCfg ==
    \/ CfgWrite
    \/ CfgEditDelete
    \/ CfgEditCorrupt
    \/ CfgEditDropSection
    \/ CfgEditDropField
    \/ CfgEditBlankField
    \/ CfgLoad

SpecCfg == InitCfg /\ [][NextCfg]_vars

\* One call of run_trusted_cmd.
InitRun ==
    /\ fs = IdleFs
    /\ last = NoCall
    /\ generated = {}
    /\ calls = 0
    /\ toml = TomlAbsent
    /\ gdbScript = TRUE
    /\ ocdDir = TRUE
    /\ loaded = NotLoaded
    /\ edits = 0
    /\ origin = "none"
    /\ child = NoChild
    /\ pipes = IdlePipes
    /\ rd = IdleReaders
    /\ console = <<>>
    /\ mpc = "start"
    /\ outcome = NoOutcome
    /\ exits = <<>>
    /\ quietMode = FALSE
    /\ inv = NoInvocation
    /\ tc = NoToolchain
    /\ ide = NoIde
    /\ gitig = NoGitIgnore
    /\ cp = NoCopy

NextRun ==
    \/ RunBanner
    \/ Popen
    \/ PopenFails
    \/ StartOut
    \/ StartErr
    \/ JoinOut
    \/ JoinErr
    \/ RunBar
    \/ Wait
    \/ ChildWrite
    \/ ChildExit
    \/ OutStream

SpecRun == InitRun /\ [][NextRun]_vars

\* The caller of run_trusted_cmd: the statements of its one thread.
RunTrustedCmdThread ==
    \/ RunBanner
    \/ Popen
    \/ PopenFails
    \/ StartOut
    \/ StartErr
    \/ JoinOut
    \/ JoinErr
    \/ RunBar
    \/ Wait

\* The same program under a fair scheduler: a thread that can take a step
\* is not left waiting forever, and neither is the child process.
SpecRunFair ==
    /\ InitRun
    /\ [][NextRun]_vars
    /\ WF_vars(RunTrustedCmdThread)
    /\ \A s \in Streams : WF_vars(OutStreamOf(s))
    /\ WF_vars(ChildWrite)
    /\ WF_vars(ChildExit)

\* Invocations of the tool.
InitMain ==
    /\ fs = IdleFs
    /\ last = NoCall
    /\ generated = {}
    /\ calls = 0
    /\ toml = TomlAbsent
    /\ gdbScript = TRUE
    /\ ocdDir = TRUE
    /\ loaded = NotLoaded
    /\ edits = 0
    /\ origin = "none"
    /\ child = NoChild
    /\ pipes = IdlePipes
    /\ rd = IdleReaders
    /\ console = <<>>
    /\ mpc = "start"
    /\ outcome = NoOutcome
    /\ exits = <<>>
    /\ quietMode = FALSE
    /\ inv = NoInvocation
    /\ tc = NoToolchain
    /\ ide = NoIde
    /\ gitig = NoGitIgnore
    /\ cp = NoCopy

NextMain == Main

SpecMain == InitMain /\ [][NextMain]_vars

\* One invocation of the tool in a directory as it may find it.
InitCli ==
    /\ fs \in {[cwd |-> c, proj |-> p] : c \in CliCwdStates, p \in ProjStates}
    /\ last = NoCall
    /\ generated = {}
    /\ calls = 0
    /\ toml = TomlAbsent
    /\ gdbScript \in BOOLEAN
    /\ ocdDir = TRUE
    /\ loaded = NotLoaded
    /\ edits = 0
    /\ origin = "none"
    /\ child = NoChild
    /\ pipes = IdlePipes
    /\ rd = IdleReaders
    /\ console = <<>>
    /\ mpc = "start"
    /\ outcome = NoOutcome
    /\ exits = <<>>
    /\ quietMode = FALSE
    /\ inv = NoInvocation
    /\ tc = NoToolchain
    /\ ide = NoIde
    /\ gitig = NoGitIgnore
    /\ cp = NoCopy

NextCli ==
    \/ MainParseArgs
    \/ MainSetQuiet
    \/ InitExecute
    \/ BuildExecute
    \/ FlashExecute
    \/ RunExecute
    \/ CleanExecute
    \/ CleanPeriphExecute

SpecCli == InitCli /\ [][NextCli]_vars

\* find_maxim_toolchain on every listing drawn from the pool.
InitToolchain ==
    /\ fs = IdleFs
    /\ last = NoCall
    /\ generated = {}
    /\ calls = 0
    /\ toml = TomlAbsent
    /\ gdbScript = TRUE
    /\ ocdDir = TRUE
    /\ loaded = NotLoaded
    /\ edits = 0
    /\ origin = "none"
    /\ child = NoChild
    /\ pipes = IdlePipes
    /\ rd = IdleReaders
    /\ console = <<>>
    /\ mpc = "start"
    /\ outcome = NoOutcome
    /\ exits = <<>>
    /\ quietMode = FALSE
    /\ inv = NoInvocation
    /\ tc \in {[gnu_tools |-> g, result |-> NoToolchain.result] : g \in GnuToolsListings}
    /\ ide = NoIde
    /\ gitig = NoGitIgnore
    /\ cp = NoCopy

NextToolchain == FindMaximToolchain

SpecToolchain == InitToolchain /\ [][NextToolchain]_vars

\* extract_flash_config_from_vscode on every settings document.
InitExtract ==
    /\ fs = IdleFs
    /\ last = NoCall
    /\ generated = {}
    /\ calls = 0
    /\ toml = TomlAbsent
    /\ gdbScript = TRUE
    /\ ocdDir = TRUE
    /\ loaded = NotLoaded
    /\ edits = 0
    /\ origin = "none"
    /\ child = NoChild
    /\ pipes = IdlePipes
    /\ rd = IdleReaders
    /\ console = <<>>
    /\ mpc = "start"
    /\ outcome = NoOutcome
    /\ exits = <<>>
    /\ quietMode = FALSE
    /\ inv = NoInvocation
    /\ tc = NoToolchain
    /\ ide \in {[NoIde EXCEPT !.settings = MkSettings(pf, sf, rest), !.project_name = n] :
              pf \in ProgramFileTemplates, sf \in SymbolFileTemplates,
              rest \in OtherSettings, n \in IdeProjectNames}
    /\ gitig = NoGitIgnore
    /\ cp = NoCopy

NextExtract == ExtractFlashConfig

SpecExtract == InitExtract /\ [][NextExtract]_vars

\* _write_git_ignore called up to MaxIgnoreRuns times on cwd.
InitGitIgnore ==
    /\ fs \in {[cwd |-> With(EmptyDir, ".gitignore", n), proj |-> MissingDir] :
             n \in GitIgnoreNodes}
    /\ last = NoCall
    /\ generated = {}
    /\ calls = 0
    /\ toml = TomlAbsent
    /\ gdbScript = TRUE
    /\ ocdDir = TRUE
    /\ loaded = NotLoaded
    /\ edits = 0
    /\ origin = "none"
    /\ child = NoChild
    /\ pipes = IdlePipes
    /\ rd = IdleReaders
    /\ console = <<>>
    /\ mpc = "start"
    /\ outcome = NoOutcome
    /\ exits = <<>>
    /\ quietMode = FALSE
    /\ inv = NoInvocation
    /\ tc = NoToolchain
    /\ ide = NoIde
    /\ gitig = [initial |-> fs["cwd"].ent[".gitignore"], runs |-> <<>>]
    /\ cp = NoCopy

NextGitIgnore == WriteGitIgnore

SpecGitIgnore == InitGitIgnore /\ [][NextGitIgnore]_vars

\* gen_proj on every directory of TreeCwdStates and ProjStates.
InitTree ==
    /\ fs \in {[cwd |-> c, proj |-> p] : c \in TreeCwdStates, p \in ProjStates}
    /\ last = NoCall
    /\ generated = {}
    /\ calls = 0
    /\ toml = TomlAbsent
    /\ gdbScript = TRUE
    /\ ocdDir = TRUE
    /\ loaded = NotLoaded
    /\ edits = 0
    /\ origin = "none"
    /\ child = NoChild
    /\ pipes = IdlePipes
    /\ rd = IdleReaders
    /\ console = <<>>
    /\ mpc = "start"
    /\ outcome = NoOutcome
    /\ exits = <<>>
    /\ quietMode = FALSE
    /\ inv = NoInvocation
    /\ tc = NoToolchain
    /\ ide = NoIde
    /\ gitig = NoGitIgnore
    /\ cp = NoCopy

NextTree ==
    \/ GenProjOnTree

SpecTree == InitTree /\ [][NextTree]_vars


---------------------------------------------------------------------------
(* Claims about project generation (checked under SpecGen)                 *)

\* C1: if gen_proj raises, for any reason, after it has created output_dir
\* (output_dir is not cwd), then output_dir does not exist when gen_proj
\* hands control back to its caller.
C1_RollbackOnAnyFailure ==
    (last.od = "proj" /\ last.created /\ last.exc # "none") => ~fs["proj"].exists

\* C2: gen_proj never removes a directory that existed before the call; a
\* call whose output_dir already exists leaves that directory in place.
C2_NeverRemovesExistingDir ==
    (last.od # "none" /\ last.pre_exists) => fs[last.od].exists

\* C3: for a template that has Makefile, main.c and project.mk, a gen_proj
\* call that returns without error leaves the sentinel marker, src/main.c,
\* project.mk and Makefile, so that ensure_proj_dir succeeds there.
C3_GeneratedProjectIsProjDir ==
    (last.od # "none" /\ last.exc = "none" /\ last.template_ok) =>
        /\ \A n \in {".msdk-py-proj", "src/main.c", "project.mk", "Makefile"} :
               EntExists(fs, last.od, n)
        /\ ensure_proj_dir(fs, last.od)

\* C4: a second gen_proj call against a directory that an earlier call
\* generated successfully fails with CannotProceedError (the template being
\* well formed and nothing else going wrong during the second call), for a
\* named directory and for cwd, whether or not the template ships
\* .vscode/settings.json.
C4_DoubleInitGuard ==
    (/\ last.od # "none"
     /\ last.was_generated
     /\ last.template_ok
     /\ last.vscode \in {"ok", "none"}
     /\ last.fault = "none")
        => last.exc = "CannotProceedError"

\* C10: git initialisation fails with CannotProceedError and does not invoke
\* `git init` whenever it finds a .git regular file or a .git directory in
\* the project directory (reinitialisation is never requested), for a fresh
\* output directory and for the adopted cwd alike.
C10_GitConflict ==
    last.git_seen \in {"file", "dir"} =>
        (last.exc = "CannotProceedError" /\ ~last.git_ran)

\* The settings.json of the last call's output directory holds the
\* template's settings with board set to the requested BSP.
BoardRewritten ==
    LET node == fs[last.od].ent[".vscode/settings.json"]
    IN  /\ node.kind = "file"
        /\ node.data.parses
        /\ DOMAIN node.data.obj = DOMAIN last.copied_settings \cup {"board"}
        /\ node.data.obj["board"] = last.bsp
        /\ \A k \in DOMAIN last.copied_settings \ {"board"} :
               node.data.obj[k] = last.copied_settings[k]

\* C17: after a successful gen_proj the project directory contains a .vscode
\* directory if and only if IDE config was requested, and when this call
\* copied it, its settings.json has board equal to the requested BSP and
\* every other field as in the template.
C17_VscodeIffRequested ==
    (last.od # "none" /\ last.exc = "none") =>
        /\ fs[last.od].ent[".vscode"].kind = "dir" <=> last.include_vscode
        /\ (last.include_vscode /\ ~last.had_vscode) => BoardRewritten

\* C17 as amended: after a successful gen_proj the project directory
\* contains a .vscode directory if and only if IDE config was requested or
\* the directory already had one; when this call copied it, its
\* settings.json has board equal to the requested BSP and every other field
\* as in the template.
C17_VscodeIffRequestedOrPresent ==
    (last.od # "none" /\ last.exc = "none") =>
        /\ fs[last.od].ent[".vscode"].kind = "dir"
               <=> (last.include_vscode \/ last.had_vscode)
        /\ (last.include_vscode /\ ~last.had_vscode) => BoardRewritten

C17_Witness ==
    /\ last.od # "none" /\ last.exc = "none"
    /\ last.include_vscode /\ ~last.had_vscode
    /\ last.copied_settings["board"] # last.bsp
    /\ BoardRewritten

---------------------------------------------------------------------------
(* Claims about the configuration document (checked under SpecCfg)         *)

RequiredPairs ==
    {<<"project", "target">>, <<"project", "board">>, <<"project", "name">>,
     <<"flash", "program_file">>, <<"flash", "symbol_file">>,
     <<"flash", "interface_file">>, <<"flash", "target_file">>,
     <<"flash", "gdb_script">>}

\* The config-document invariant: both sections, every required field
\* present and non-empty.
Complete(file) ==
    /\ file.state = "doc"
    /\ \A p \in RequiredPairs :
           /\ p[1] \in DOMAIN file.data
           /\ p[2] \in DOMAIN file.data[p[1]]
           /\ file.data[p[1]][p[2]] # <<>>

C9_WrittenDocumentComplete ==
    (origin = "init" /\ toml.state = "doc") => Complete(toml)

---------------------------------------------------------------------------
(* Claims about the command runner (checked under SpecRun)                 *)

\* The texts the console got from one reader, in order.
RECURSIVE ConsoleOf(_, _)
ConsoleOf(log, s) ==
    IF log = <<>> THEN <<>>
    ELSE (IF Head(log).src = s THEN <<Head(log).text>> ELSE <<>>)
             \o ConsoleOf(Tail(log), s)

\* The lines the child wrote to one stream, in order, as the console shows them.
RECURSIVE WrittenTo(_, _)
WrittenTo(script, s) ==
    IF script = <<>> THEN <<>>
    ELSE (IF Head(script).stream = s THEN << <<"  |  ">> \o RStrip(Head(script).text) >>
          ELSE <<>>)
             \o WrittenTo(Tail(script), s)

\* C6: run_trusted_cmd raises CannotProceedError carrying the child's exit
\* code if and only if the child exits with a non-zero code; for exit code 0
\* it returns normally.
C6_RaisesIffNonZero ==
    mpc = "done" =>
        /\ outcome.kind = "CannotProceedError"
               <=> (child.state = "exited" /\ child.code # 0)
        /\ outcome.kind = "CannotProceedError" => outcome.code = child.code
        /\ (child.state = "exited" /\ child.code = 0) => outcome.kind = "returned"

C6_Witness ==
    mpc = "done" /\ outcome.kind = "CannotProceedError" /\ outcome.code = -9

\* C7: when run_trusted_cmd returns or raises, every line the child wrote
\* has reached the console exactly once, the lines of each stream in the
\* order the child wrote them.
C7_AllLinesDelivered ==
    (mpc = "done" /\ child.state # "none") =>
        \A s \in Streams : ConsoleOf(console, s) = WrittenTo(child.script, s)

C7_Witness ==
    /\ mpc = "done"
    /\ Len(child.script) = MaxLines
    /\ \A s \in Streams : \E i \in 1..Len(child.script) : child.script[i].stream = s
    /\ \E i \in 1..Len(child.script) : child.script[i].text = <<"b", " ">>
    /\ \E i \in 1..Len(child.script) : child.script[i].text = <<>>

---------------------------------------------------------------------------
(* Claims about the entry point (checked under SpecMain)                   *)

\* C5: every invocation of main ends with exit status 0 when the command
\* returns, 1 when it raises ValidationError, CannotProceedError or
\* MissingToolError, 130 on KeyboardInterrupt, and 2 for any other error
\* raised by the command.
C5_ExitCodes ==
    \A i \in 1..Len(exits) :
        exits[i].status =
            CASE exits[i].result = "return" -> 0
              [] exits[i].result \in {"ValidationError", "CannotProceedError",
                                      "MissingToolError"} -> 1
              [] exits[i].result = "KeyboardInterrupt" -> 130
              [] OTHER -> 2

---------------------------------------------------------------------------
(* Claims about one invocation from the command line (checked under SpecCli) *)

GdbFlash == [prog |-> "gdb", arg |-> <<"flash_m4">>]
GdbRun   == [prog |-> "gdb", arg |-> <<"flash_m4_run">>]

Ran(cmd) == \E i \in 1..Len(inv.ran) : inv.ran[i] = cmd

\* C11: init with --reinit-git (and git initialisation not switched off)
\* against a directory that already contains a .git directory invokes
\* `git init` there and completes without a conflict error.
C11_ReinitGit ==
    (/\ inv.pc = "exited"
     /\ inv.cmd = "init"
     /\ inv.env.validated
     /\ inv.args.init_git
     /\ inv.args.reinit_git
     /\ inv.pre_git = "dir")
        => (inv.exc = "none" /\ inv.git_ran)

\* C14: once main has handled -q/--quiet, is_quiet_mode() gives True for the
\* rest of the invocation when the flag was given, and False when it was not.
C14_QuietMode ==
    inv.pc \in {"command", "exited"} => (is_quiet_mode <=> inv.quiet)

C16_BuildOutOverride ==
    (/\ inv.pc = "exited"
     /\ inv.cmd = "build"
     /\ (inv.args.out = None \/ inv.args.out[1] \in ConventionalNames)
     /\ ensure_proj_dir(fs, "cwd")
     /\ inv.env.maxim
     /\ inv.env.gnu_tools.entries # {})
        => /\ inv.ran # <<>>
           /\ inv.ran[1].prog = "make"
           /\ inv.ran[1].arg = IF inv.args.out = None THEN <<>>
                                ELSE <<" PROJECT=">> \o inv.args.out[1]

ProjectCommands == {"build", "clean", "clean-periph", "flash", "run"}

\* C24: build, clean, clean-periph, flash and run raise ValidationError and
\* launch no external process when the current directory has no regular file
\* .msdk-py-proj (the entry is absent, or is a directory).
C24_MarkerCheckedFirst ==
    (/\ inv.pc = "exited"
     /\ inv.cmd \in ProjectCommands
     /\ fs["cwd"].ent[".msdk-py-proj"].kind # "file")
        => (inv.exc = "ValidationError" /\ inv.ran = <<>>)

\* A project command stopped at a marker that is a directory, in a directory
\* that is otherwise a complete project.
C24_Witness ==
    /\ inv.pc = "exited"
    /\ inv.cmd = "clean-periph"
    /\ fs["cwd"].ent[".msdk-py-proj"].kind = "dir"
    /\ fs["cwd"].ent["msdk-proj.toml"].kind = "file"
    /\ inv.exc = "ValidationError"

MakeAt(i)  == inv.ran[i].prog = "make"
GdbAt(i)   == inv.ran[i].prog = "gdb"

\* The .elf in build/ when a gdb command is launched: make wrote it, or it
\* was there before the command.
ElfThere ==
    \/ inv.env.elf.exists
    \/ (~inv.args.skip_build /\ inv.env.make_effect = "write")

SymbolThere ==
    LET doc == TomlOf(fs["cwd"].ent["msdk-proj.toml"]).data
    IN  doc["flash"]["symbol_file"] = doc["flash"]["program_file"] \/ inv.env.symbol

\* C25: in flash and in run, a failed build (make exits non-zero) ends the
\* command with CannotProceedError and no gdb command follows; a gdb command
\* is launched only after the build was skipped or make exited 0, and only
\* when the program file and the symbol file are both in build/.
C25_NoGdbAfterFailedBuild ==
    (inv.pc = "exited" /\ inv.cmd \in {"flash", "run"}) =>
        LET gdb == \E i \in 1..Len(inv.ran) : GdbAt(i)
            made == \E i \in 1..Len(inv.ran) : MakeAt(i)
        IN  /\ (~inv.args.skip_build /\ made /\ inv.env.make_code # 0)
                   => (inv.exc = "CannotProceedError" /\ ~gdb)
            /\ gdb => /\ inv.args.skip_build \/ (made /\ inv.env.make_code = 0)
                      /\ inv.args.skip_build => ~made
                      /\ \A i \in 1..Len(inv.ran) :
                            GdbAt(i) => \A j \in (i+1)..Len(inv.ran) : ~MakeAt(j)
                      /\ ElfThere
                      /\ SymbolThere

\* A build that succeeded and was followed by gdb, with a symbol file of
\* its own.
C25_Witness ==
    /\ inv.pc = "exited" /\ inv.cmd = "flash"
    /\ Len(inv.ran) = 2 /\ MakeAt(1) /\ GdbAt(2)
    /\ ~inv.env.elf.exists
    /\ LET doc == TomlOf(fs["cwd"].ent["msdk-proj.toml"]).data
       IN  doc["flash"]["symbol_file"] # doc["flash"]["program_file"]

---------------------------------------------------------------------------
(* Claims about toolchain discovery (checked under SpecToolchain)          *)

V1_2_0   == <<"1", ".", "2", ".", "0">>
V1_10_0  == <<"1", ".", "1", "0", ".", "0">>
V1_9_5   == <<"1", ".", "9", ".", "5">>
V1_10    == <<"1", ".", "1", "0">>
V01_10_0 == <<"0", "1", ".", "1", "0", ".", "0">>

\* The version each well-formed name of the pool stands for.
Components(name) ==
    CASE name = V1_2_0   -> <<1, 2, 0>>
      [] name = V1_10_0  -> <<1, 10, 0>>
      [] name = V1_9_5   -> <<1, 9, 5>>
      [] name = V1_10    -> <<1, 10>>
      [] name = V01_10_0 -> <<1, 10, 0>>

\* Numeric comparison of versions: the first component that differs
\* decides; a version that is a proper prefix of another is the smaller.
NumLess(a, b) ==
    \E k \in 1..Len(b) :
        /\ \A j \in 1..(k - 1) : j <= Len(a) /\ a[j] = b[j]
        /\ (k > Len(a) \/ a[k] < b[k])

\* The subdirectories whose name starts with a digit.
VersionDirs(g) ==
    {d \in g.entries : d.kind = "dir" /\ d.name[1] \notin {"x", "."}}

---------------------------------------------------------------------------
(* Claims about placeholder resolution (checked under SpecExtract)         *)

HasPlaceholder(text) ==
    \E i \in 1..Len(text) : text[i] \in {TokProjectName, TokProgramFile}

---------------------------------------------------------------------------
(* Claims about the ignore file (checked under SpecGitIgnore)              *)

\* The block the claim lists, line by line.
ClaimedBlock(vscode) ==
    IF vscode
    THEN <<"build/", Newline, "compile_flags.txt", Newline, "*.log", Newline,
           "*.old", Newline, ".vscode", Newline>>
    ELSE <<"build/", Newline, "compile_flags.txt", Newline, "*.log", Newline,
           "*.old", Newline>>

\* The content after the given calls on content `old`: a call that raised
\* wrote nothing, every other call appended a newline and its block.
RECURSIVE AfterRuns(_, _)
AfterRuns(old, runs) ==
    IF runs = <<>> THEN old
    ELSE AfterRuns(IF Head(runs).exc = "none"
                   THEN old \o <<Newline>> \o ClaimedBlock(Head(runs).vscode)
                   ELSE old,
                   Tail(runs))

\* The number of places where pat occurs in text.
Occurrences(text, pat) ==
    Cardinality({i \in 1..(Len(text) - Len(pat) + 1) :
                    SubSeq(text, i, i + Len(pat) - 1) = pat})

Returned(runs) == SelectSeq(runs, LAMBDA r : r.exc = "none")

\* C18: _write_git_ignore keeps the existing .gitignore content as a prefix
\* and appends the fixed block after it without de-duplication, so that k
\* calls leave k more copies of the block; when .gitignore is a directory
\* the call changes nothing and raises nothing.
C18_AppendsBlockEachRun ==
    LET node == fs["cwd"].ent[".gitignore"]
        old  == IF gitig.initial.kind = "file" THEN gitig.initial.data ELSE <<>>
        k    == Len(Returned(gitig.runs))
    IN  IF gitig.initial.kind = "dir"
        THEN /\ node = DirEnt
             /\ \A i \in 1..Len(gitig.runs) : gitig.runs[i].exc = "none"
        ELSE /\ k = 0 => node = gitig.initial
             /\ k > 0 =>
                  /\ node.kind = "file"
                  /\ node.data = AfterRuns(old, gitig.runs)
                  /\ SubSeq(node.data, 1, Len(old)) = old
                  /\ Occurrences(node.data, ClaimedBlock(FALSE))
                         = k + Occurrences(old, ClaimedBlock(FALSE))

C18_Witness ==
    /\ Len(gitig.runs) = MaxIgnoreRuns
    /\ \A i \in 1..Len(gitig.runs) : gitig.runs[i].exc = "none"
    /\ gitig.initial = FileEnt(<<"*.o">>)
    /\ Occurrences(fs["cwd"].ent[".gitignore"].data, ClaimedBlock(FALSE)) = MaxIgnoreRuns

---------------------------------------------------------------------------
(* Claims about the threads of the command runner                          *)

Finished(s) ==
    /\ rd[s].pc = "done"
    /\ rd[s].closed
    /\ pipes[s].buf = <<>>
    /\ pipes[s].closed

ExitCodeObtained == mpc = "done" /\ outcome.kind \in {"returned", "CannotProceedError"}

\* C19: both reader threads have read their stream to end-of-file and
\* closed it before the exit code is obtained and checked, and once
\* run_trusted_cmd has returned or raised no reader thread runs and no
\* reader writes a console line.
C19_ReadersFinishedBeforeWait ==
    /\ [](mpc \in {"bar", "wait"} \/ ExitCodeObtained
              => \A s \in Streams : Finished(s))
    /\ [](mpc = "done" => \A s \in Streams : rd[s].pc \in {"idle", "done"})
    /\ [][mpc = "done" => console' = console /\ rd' = rd]_vars

C19_Witness ==
    /\ ExitCodeObtained
    /\ \A s \in Streams : \E i \in 1..Len(console) : console[i].src = s
    /\ \A s \in Streams : Finished(s)

---------------------------------------------------------------------------
(* Claims about termination of the command runner (SpecRunFair)            *)

\* C20: a child that writes finitely many lines to the two bounded pipes,
\* in any order, and then exits is never blocked forever on a full pipe
\* (it exits), and run_trusted_cmd returns or raises.
C20_RunnerTerminates ==
    /\ (child.state = "running") ~> (child.state = "exited")
    /\ <>(mpc = "done")

\* The child had to wait for room in a pipe on the way: it wrote more lines
\* to one stream than the pipe holds.
C20_Witness ==
    /\ mpc = "done"
    /\ child.state = "exited"
    /\ \E s \in Streams :
           Cardinality({i \in 1..Len(child.script) : child.script[i].stream = s})
               > PipeCap

---------------------------------------------------------------------------
(* Claims about the files gen_proj leaves (checked under SpecTree)         *)

Succeeded == cp.pc = "done" /\ cp.exc = "none"

After(name) == fs[cp.od].ent[name]

CopyDests == {"Makefile", "src/main.c", "project.mk"}

OldName(dest) ==
    CASE dest = "Makefile"   -> "Makefile.old"
      [] dest = "src/main.c" -> "src/main.c.old"
      [] dest = "project.mk" -> "project.mk.old"

\* The lines of the template's project.mk without the last one.
KeptLines == SubSeq(cp.mk_lines, 1, Len(cp.mk_lines) - 1)

\* The destination holds what the template has for it (for project.mk: the
\* template's lines as far as they are kept).
HoldsTemplate(dest) ==
    /\ After(dest).kind = "file"
    /\ CASE dest = "Makefile"   -> After(dest).data = <<"template Makefile">>
         [] dest = "src/main.c" -> After(dest).data = <<"template main.c">>
         [] dest = "project.mk" ->
              /\ Len(After(dest).data) >= Len(KeptLines)
              /\ SubSeq(After(dest).data, 1, Len(KeptLines)) = KeptLines

\* C21: when gen_proj adopts the current directory and Makefile, src/main.c
\* or project.mk is already there, the file is renamed aside with the suffix
\* .old and the template's file is copied: afterwards the destination holds
\* the template's content and the .old file the previous content.
C21_AdoptRenamesAside ==
    (Succeeded /\ cp.od = "cwd") =>
        \A dest \in CopyDests :
            cp.pre[dest].kind = "file" =>
                /\ HoldsTemplate(dest)
                /\ After(OldName(dest)) = cp.pre[dest]

IncludeEntries == {"include/.gitkeep", "include/user.h"}

\* include/ has no entry once the template files are copied (the copy puts
\* nothing there).
IncludeEmptyAfterCopy == \A n \in IncludeEntries : cp.pre[n].kind = "none"

PlaceholderCreated ==
    cp.pre["include/.gitkeep"].kind = "none" /\ After("include/.gitkeep").kind = "file"

\* C22: with git support requested, include/.gitkeep is created exactly when
\* include/ is empty after the template files were copied (so for every
\* freshly created project directory); it is not created when include/ has
\* entries or when git support is not requested.
C22_GitKeepWhenIncludeEmpty ==
    Succeeded =>
        /\ cp.do_git => (PlaceholderCreated <=> IncludeEmptyAfterCopy)
        /\ ~cp.do_git => ~PlaceholderCreated

NonBlank(lines) == SelectSeq(lines, LAMBDA l : l # <<>>)

Count(lines, l) == Cardinality({i \in 1..Len(lines) : lines[i] = l})

ProjectLine == <<"PROJECT=">> \o (IF cp.od = "proj" THEN <<"proj">> ELSE <<"work">>)
BoardLine   == <<"BOARD=">> \o cp.bsp
TargetLine  == <<"TARGET=">> \o cp.target
ConfigsLine == <<"# Add any additional configs here!">>

\* C23: after a successful gen_proj that copied project.mk, the file is the
\* template's lines in their order without the final one, followed by one
\* identity block: PROJECT=<name of the output directory>, BOARD=<bsp>,
\* TARGET=<target> and a fresh placeholder comment; the block is there once.
\* (An empty line between TARGET= and the comment is not counted as a line
\* of the block.)
C23_ProjectMkRewritten ==
    (Succeeded /\ cp.mk_copied) =>
        LET lines == After("project.mk").data
            n     == Len(KeptLines)
        IN  /\ After("project.mk").kind = "file"
            /\ Len(lines) >= n + 4
            /\ SubSeq(lines, 1, n) = KeptLines
            /\ SubSeq(lines, n + 1, n + 3) = <<ProjectLine, BoardLine, TargetLine>>
            /\ NonBlank(SubSeq(lines, n + 4, Len(lines))) = <<ConfigsLine>>
            /\ \A l \in {ProjectLine, BoardLine, TargetLine, ConfigsLine} :
                   Count(lines, l) = 1

\* A three-line template project.mk copied into an adopted directory that
\* has sources of its own.
C23_Witness ==
    /\ Succeeded /\ cp.mk_copied /\ cp.od = "cwd"
    /\ Len(cp.mk_lines) = 3
    /\ cp.pre["Makefile"].kind = "file"

=============================================================================
